---- MODULE Spec2Model ----
(***************************************************************************)
(* Model of the license-provisioning wrapper: the key-store authorization  *)
(* (src/auth.py), the cached secret lookup (src/config.py), the request    *)
(* normalizer and the provision handler (src/provision_license.py) and the *)
(* key administration tool (scripts/manage_api_keys.py).                   *)
(*                                                                         *)
(* Python values are modelled as follows.                                  *)
(*   - a str is a sequence of one-character strings where its characters   *)
(*     are inspected (the Authorization header, the api key), and a plain  *)
(*     TLA+ string where it is only compared (field names, scalar values); *)
(*   - Optional[x] is a sequence of length <= 1: None is << >>, x is <<x>>;*)
(*   - a dict that the code iterates (the request body) is the sequence of *)
(*     its <<key, value>> pairs in insertion order, keys distinct;         *)
(*   - a dict that is only read by key is a TLA+ record.                   *)
(***************************************************************************)
EXTENDS Integers, Sequences, FiniteSets, TLC

VARIABLES
    table,           \* the DynamoDB api-key table: api key -> Optional[item]
    secret,          \* the JSON object held by the secret store
    _secrets_cache,  \* src/config.py: Optional[credentials] under "credentials"
    _dynamodb,       \* src/auth.py: the lazily created resource handle
    inv,             \* the provision-handler invocation being observed
    nb,              \* the normalizer's input and outputs (pure-function runs)
    seen,            \* a validate_api_key call being observed
    twin,            \* two handler invocations on two labellings of one record
    th               \* the threads running the two lazy initializations

\* The variables that only the specifications of single functions use.
aux == <<seen, twin, th>>

vars == <<table, secret, _secrets_cache, _dynamodb, inv, nb, aux>>

---------------------------------------------------------------------------
(* Bounds of the model. *)

\* Largest number of fields in a request body drawn for the handler.
MaxFields == 2
\* Largest number of fields in a body drawn for the normalizer alone.
MaxNormFields == 3

---------------------------------------------------------------------------
(* Python helpers. *)

None == << >>
Some(x) == <<x>>
IsNone(o) == Len(o) = 0

\* Mutant of startswith: the last character of the prefix is not compared.
startswith_DropsLastChar(s, prefix) ==
    /\ Len(s) >= Len(prefix) - 1
    /\ SubSeq(s, 1, Len(prefix) - 1) = SubSeq(prefix, 1, Len(prefix) - 1)

\* str.startswith
startswith(s, prefix) ==
    /\ Len(s) >= Len(prefix)
    /\ SubSeq(s, 1, Len(prefix)) = prefix

\* s[n:]
SliceFrom(s, n) == SubSeq(s, n + 1, Len(s))

\* dict as an insertion-ordered sequence of <<key, value>> pairs
DictKeys(d) == {d[i][1] : i \in 1..Len(d)}
DictIndex(d, k) == CHOOSE i \in 1..Len(d) : d[i][1] = k
\* d.get(k, default)
DictGet(d, k, default) ==
    IF k \in DictKeys(d) THEN d[DictIndex(d, k)][2] ELSE default
\* Mutant of d[k] = v: an existing key keeps its value (dict.setdefault).
DictSet_KeepsFirst(d, k, v) ==
    IF k \in DictKeys(d) THEN d ELSE Append(d, <<k, v>>)

\* d[k] = v: an existing key keeps its position, a new key is appended
DictSet(d, k, v) ==
    IF k \in DictKeys(d)
    THEN [d EXCEPT ![DictIndex(d, k)] = <<k, v>>]
    ELSE Append(d, <<k, v>>)
\* the dict left by d.pop(k, None)
DictWithout(d, k) ==
    IF k \in DictKeys(d)
    THEN LET i == DictIndex(d, k)
         IN  SubSeq(d, 1, i - 1) \o SubSeq(d, i + 1, Len(d))
    ELSE d
\* the key/value content of a dict (dict equality and **kwargs ignore order)
DictItems(d) == {d[i] : i \in 1..Len(d)}

---------------------------------------------------------------------------
(* Values. *)

\* The "Bearer " prefix of src/auth.py, as characters.
BearerPrefix == <<"B", "e", "a", "r", "e", "r", " ">>

\* The api keys secrets.token_urlsafe can produce in the model.
ApiKeys == {<<"k", "1">>, <<"k", "2">>}

\* Authorization header values: the empty string, an empty key, well-formed
\* bearer keys, another scheme, and the prefix without its space.
AuthHeaders ==
    {<< >>, BearerPrefix}
    \cup {BearerPrefix \o k : k \in ApiKeys}
    \cup {<<"B", "a", "s", "i", "c", " ">> \o <<"k", "1">>,
          <<"B", "e", "a", "r", "e", "r">> \o <<"k", "1">>}

\* A dict that is only read by key is a record of Optionals: a key the dict
\* does not hold is None, so d.get(k, default) is OrDefault(d.k, default).
OrDefault(o, default) == IF IsNone(o) THEN default ELSE o[1]

\* event["headers"]: None, or a dict with or without "Authorization".
HeaderDicts == [Authorization : {None} \cup {Some(h) : h \in AuthHeaders}]
EventHeaders == {None} \cup {Some(h) : h \in HeaderDicts}

Customers == {"Test Corp"}
Timestamps == {"t1"}

\* JSON scalar values of request fields. The empty string is falsy.
EmptyStr == "str:"
FieldValues == {EmptyStr, "str:A"}
NormValues == {EmptyStr, "str:A", "num:5"}
Truthy(v) == v # EmptyStr

\* The secret's JSON object, read only through .get("product_id").
DefaultProductIds == {"str:default-prod"}
Secrets == [product_id : {None} \cup {Some(p) : p \in DefaultProductIds}]

\* Field names a request body can use: both forms of two mapped fields and
\* one field the mapping table does not name.
BodyKeys ==
    {"product_id", "productId", "allowed_activations", "allowedActivations",
     "type"}

\* Insertion-ordered dicts over BodyKeys with at most n fields and values
\* in a given set.
RECURSIVE DictsUpTo(_, _)
DictsUpTo(n, values) ==
    IF n = 0 THEN {<< >>}
    ELSE LET shorter == DictsUpTo(n - 1, values)
         IN  shorter \cup
             {Append(d, <<k, v>>) :
                 d \in {e \in shorter : Len(e) = n - 1},
                 k \in BodyKeys, v \in values}

WellFormedDict(d) == \A i, j \in 1..Len(d) : d[i][1] = d[j][1] => i = j

\* A JSON value as json.loads returns it: an object (a dict) or a value of
\* another type, which has no .items().
JObject(d) == [type |-> "object", items |-> d]
JArray == [type |-> "array", items |-> << >>]
JNull == [type |-> "null", items |-> << >>]

\* event["body"]: None, or a text. A text is the empty string, a str
\* that json.loads rejects, a str that json.loads decodes to a value, or
\* an object that is no str at all.
EmptyText == [kind |-> "empty", value |-> JNull]
InvalidText == [kind |-> "invalid", value |-> JNull]
NotAStr == [kind |-> "notstr", value |-> JNull]
JsonText(v) == [kind |-> "json", value |-> v]

\* The bodies of tests/test_handlers.py that carry the upstream account's
\* credentials: all three of them, and the email alone.
CredentialNames == {"email", "password", "accountId"}
CRYPTLEX_CREDS ==
    <<<<"email", "str:user@example.com">>, <<"password", "str:secret123">>,
      <<"accountId", "str:acct-001">>>>
PartialCredentials == <<<<"email", "str:user@example.com">>>>

BodyDicts ==
    {d \in DictsUpTo(MaxFields, FieldValues) : WellFormedDict(d)}
    \cup {CRYPTLEX_CREDS, PartialCredentials}
EventBodies ==
    {None}
    \cup {Some(t) : t \in {EmptyText, InvalidText, NotAStr,
                           JsonText(JArray), JsonText(JNull)}}
    \cup {Some(JsonText(JObject(d))) : d \in BodyDicts}

Events == [headers : EventHeaders, body : EventBodies]

---------------------------------------------------------------------------
(* src/auth.py *)

\* An item of the api-key table; an attribute the item lacks is None.
Item(api_key, customer, active, created_at) ==
    [api_key |-> api_key, customer |-> customer, active |-> active,
     created_at |-> created_at]

\* _get_table: the value of _dynamodb after the call (the handle is
\* created on first use and kept).
_get_table(dynamodb) ==
    IF IsNone(dynamodb) THEN Some("dynamodb") ELSE dynamodb

\* table.get_item(Key={"api_key": api_key}).get("Item")
get_item(api_key) ==
    IF api_key \in DOMAIN table THEN table[api_key] ELSE None

AuthResult(ret, exc, lookups, dynamodb) ==
    [ret |-> ret, exc |-> exc, lookups |-> lookups, dynamodb |-> dynamodb]

\* Mutant of validate_api_key: item.get("active") without the default.
validate_api_key_ActiveRequired(event, storeOK) ==
    LET headers == IF IsNone(event.headers)
                   THEN [Authorization |-> None]
                   ELSE event.headers[1]
        auth_header == OrDefault(headers.Authorization, << >>)
        api_key == SliceFrom(auth_header, Len(BearerPrefix))
        item == get_item(api_key)
    IN  IF ~startswith(auth_header, BearerPrefix)
        THEN AuthResult(None, "none", << >>, _dynamodb)
        ELSE IF api_key = << >>
        THEN AuthResult(None, "none", << >>, _dynamodb)
        ELSE IF ~storeOK
        THEN AuthResult(None, "ClientError", <<api_key>>,
                        _get_table(_dynamodb))
        ELSE IF ~IsNone(item) /\ OrDefault(item[1].active, FALSE)
        THEN AuthResult(item, "none", <<api_key>>, _get_table(_dynamodb))
        ELSE AuthResult(None, "none", <<api_key>>, _get_table(_dynamodb))

\* Mutant of validate_api_key: the active flag of the item is not read.
validate_api_key_IgnoresActive(event, storeOK) ==
    LET headers == IF IsNone(event.headers)
                   THEN [Authorization |-> None]
                   ELSE event.headers[1]
        auth_header == OrDefault(headers.Authorization, << >>)
        api_key == SliceFrom(auth_header, Len(BearerPrefix))
        item == get_item(api_key)
    IN  IF ~startswith(auth_header, BearerPrefix)
        THEN AuthResult(None, "none", << >>, _dynamodb)
        ELSE IF api_key = << >>
        THEN AuthResult(None, "none", << >>, _dynamodb)
        ELSE IF ~storeOK
        THEN AuthResult(None, "ClientError", <<api_key>>,
                        _get_table(_dynamodb))
        ELSE IF ~IsNone(item)
        THEN AuthResult(item, "none", <<api_key>>, _get_table(_dynamodb))
        ELSE AuthResult(None, "none", <<api_key>>, _get_table(_dynamodb))

\* validate_api_key(event); storeOK is whether get_item answers or raises.
\* ret is the value returned, lookups the keys get_item was called with.
validate_api_key(event, storeOK) ==
    LET headers == IF IsNone(event.headers)
                   THEN [Authorization |-> None]
                   ELSE event.headers[1]
        auth_header == OrDefault(headers.Authorization, << >>)
        api_key == SliceFrom(auth_header, Len(BearerPrefix))
        item == get_item(api_key)
    IN  IF ~startswith(auth_header, BearerPrefix)
        THEN AuthResult(None, "none", << >>, _dynamodb)
        ELSE IF api_key = << >>
        THEN AuthResult(None, "none", << >>, _dynamodb)
        ELSE IF ~storeOK
        THEN AuthResult(None, "ClientError", <<api_key>>,
                        _get_table(_dynamodb))
        ELSE IF ~IsNone(item) /\ OrDefault(item[1].active, TRUE)
        THEN AuthResult(item, "none", <<api_key>>, _get_table(_dynamodb))
        ELSE AuthResult(None, "none", <<api_key>>, _get_table(_dynamodb))

---------------------------------------------------------------------------
(* src/config.py *)

\* Mutant of get_cryptlex_credentials: a failing fetch is caught and gives
\* credentials without any field.
get_cryptlex_credentials_EmptyOnFailure(secretOK) ==
    IF ~IsNone(_secrets_cache.credentials)
    THEN [ret |-> _secrets_cache.credentials, exc |-> "none",
          cache |-> _secrets_cache, fetches |-> 0]
    ELSE IF ~secretOK
    THEN [ret |-> Some([product_id |-> None]), exc |-> "none",
          cache |-> _secrets_cache, fetches |-> 1]
    ELSE [ret |-> Some(secret), exc |-> "none",
          cache |-> [credentials |-> Some(secret)], fetches |-> 1]

\* Mutant of get_cryptlex_credentials: the cache is written but not read.
get_cryptlex_credentials_AlwaysFetches(secretOK) ==
    IF ~secretOK
    THEN [ret |-> None, exc |-> "ClientError",
          cache |-> _secrets_cache, fetches |-> 1]
    ELSE [ret |-> Some(secret), exc |-> "none",
          cache |-> [credentials |-> Some(secret)], fetches |-> 1]

\* get_cryptlex_credentials(); secretOK is whether get_secret_value answers
\* or raises. cache is _secrets_cache after the call, fetches the number of
\* reads of the secret store.
get_cryptlex_credentials(secretOK) ==
    IF ~IsNone(_secrets_cache.credentials)
    THEN [ret |-> _secrets_cache.credentials, exc |-> "none",
          cache |-> _secrets_cache, fetches |-> 0]
    ELSE IF ~secretOK
    THEN [ret |-> None, exc |-> "ClientError",
          cache |-> _secrets_cache, fetches |-> 1]
    ELSE [ret |-> Some(secret), exc |-> "none",
          cache |-> [credentials |-> Some(secret)], fetches |-> 1]

---------------------------------------------------------------------------
(* src/provision_license.py *)

\* Maps the snake_case convenience fields to Cryptlex camelCase.
_FIELD_MAP ==
    [product_id |-> "productId",
     allowed_activations |-> "allowedActivations",
     allowed_deactivations |-> "allowedDeactivations",
     lease_duration |-> "leaseDuration",
     server_sync_grace_period |-> "serverSyncGracePeriod",
     server_sync_interval |-> "serverSyncInterval",
     allowed_clock_offset |-> "allowedClockOffset",
     subscription_interval |-> "subscriptionInterval",
     response_validity |-> "responseValidity",
     fingerprint_matching_strategy |-> "fingerprintMatchingStrategy"]

\* Mutant of the lookup: no name is mapped.
_FIELD_MAP_get_Identity(key) == key

\* _FIELD_MAP.get(key, key)
_FIELD_MAP_get(key) ==
    IF key \in DOMAIN _FIELD_MAP THEN _FIELD_MAP[key] ELSE key

\* The loop of _normalize_body from the i-th item of body on, out being the
\* dict built so far: out[_FIELD_MAP.get(key, key)] = value.
RECURSIVE NormalizeLoop(_, _, _)
NormalizeLoop(body, i, out) ==
    IF i > Len(body) THEN out
    ELSE NormalizeLoop(body, i + 1,
                       DictSet(out, _FIELD_MAP_get(body[i][1]), body[i][2]))

_normalize_body(body) == NormalizeLoop(body, 1, << >>)

\* json.dumps: the JSON text of a dict.
json_dumps(body) == [encoding |-> "json", of |-> body]

_response(status_code, body) ==
    [statusCode |-> status_code,
     headers |-> <<<<"Content-Type", "application/json">>>>,
     body |-> json_dumps(body)]

\* Mutant of json.loads: a text that does not decode counts as "{}".
json_loads_Lenient(text) ==
    CASE text.kind = "json" -> [exc |-> "none", value |-> text.value]
      [] text.kind = "notstr" -> [exc |-> "TypeError", value |-> JNull]
      [] OTHER -> [exc |-> "none", value |-> JObject(<< >>)]

\* json.loads(text): the decoded value, or the exception raised.
json_loads(text) ==
    CASE text.kind = "json" -> [exc |-> "none", value |-> text.value]
      [] text.kind = "notstr" -> [exc |-> "TypeError", value |-> JNull]
      [] OTHER -> [exc |-> "JSONDecodeError", value |-> JNull]

\* The text "{}".
EmptyObjectText == JsonText(JObject(<< >>))

\* event.get("body") or "{}"
BodyOrEmptyObject(event) ==
    IF IsNone(event.body) \/ event.body[1] = EmptyText
    THEN EmptyObjectText
    ELSE event.body[1]

\* `not product_id` for an Optional scalar.
Not(product_id) == IsNone(product_id) \/ ~Truthy(product_id[1])

\* Mutant of the pop: the product id is looked up under its simplified name.
PopProductId_SimplifiedName(body) ==
    IF "product_id" \in DictKeys(body)
    THEN Some(DictGet(body, "product_id", EmptyStr))
    ELSE None

\* body.pop("productId", None)
PopProductId(body) ==
    IF "productId" \in DictKeys(body)
    THEN Some(DictGet(body, "productId", EmptyStr))
    ELSE None

\* What the upstream provider does with a license-creation call: accept it
\* and answer a license object, reject it with a status and a text, fail
\* with an HTTPError that carries no response, or fail to connect.
LicenseObject == <<<<"id", "str:lic-123">>, <<"key", "str:ABCD-EFGH">>>>
UpstreamOutcomes ==
    {[kind |-> "ok", status_code |-> 201, text |-> "created"],
     [kind |-> "http_error", status_code |-> 400, text |-> "bad product"],
     [kind |-> "http_error", status_code |-> 401, text |-> "bad creds"],
     [kind |-> "http_error", status_code |-> 503, text |-> "unavailable"],
     [kind |-> "http_error_no_response", status_code |-> 0,
      text |-> "HTTPError()"],
     [kind |-> "connection_error", status_code |-> 0, text |-> "refused"]}

\* create_license(product_id, **extra): the object returned or the
\* exception raised, with the upstream's response when the exception has one.
create_license(product_id, extra, upstream) ==
    [product_id |-> product_id,
     extra |-> DictItems(extra),
     ret |-> IF upstream.kind = "ok" THEN Some(LicenseObject) ELSE None,
     exc |-> CASE upstream.kind = "ok" -> "none"
               [] upstream.kind = "connection_error" -> "ConnectionError"
               [] OTHER -> "HTTPError",
     response |-> IF upstream.kind = "http_error"
                  THEN Some([status_code |-> upstream.status_code,
                             text |-> upstream.text])
                  ELSE None,
     message |-> upstream.text]

UnauthorizedBody ==
    <<<<"error", "Unauthorized. Provide a valid API key.">>>>
InvalidJsonBody == <<<<"error", "Invalid JSON in request body.">>>>
ProductIdRequiredBody == <<<<"error", "product_id is required.">>>>
InternalErrorBody == <<<<"error", "Internal server error.">>>>
CryptlexErrorBody(detail) ==
    <<<<"error", "Cryptlex API error">>, <<"detail", detail>>>>

\* The outcome of one handler invocation: what validate_api_key returned,
\* the response returned (None when an exception leaves the handler), the
\* exception, and what the invocation did: the key-store lookups, whether
\* json.loads ran, the normalized body, the secret-store reads, the create_license calls, and the module state
\* it leaves.
Outcome(auth) ==
    [caller |-> auth.ret, response |-> None, exc |-> "none",
     lookups |-> auth.lookups, parsed |-> FALSE, normalized |-> None,
     fetches |-> 0, calls |-> << >>, cache |-> _secrets_cache, dynamodb |-> auth.dynamodb]

\* Mutant of the block: a failure that is not an HTTP error is logged and
\* answered 200 with an empty object.
CreateLicense_SwallowsException(out, product_id, body, upstream) ==
    LET call == create_license(product_id, body, upstream)
        made == [out EXCEPT !.calls = <<call>>]
        status == IF ~IsNone(call.response)
                  THEN call.response[1].status_code ELSE 502
        detail == IF ~IsNone(call.response)
                  THEN call.response[1].text ELSE call.message
    IN  CASE call.exc = "none" ->
               [made EXCEPT !.response = Some(_response(200, call.ret[1]))]
          [] call.exc = "HTTPError" ->
               [made EXCEPT !.response =
                   Some(_response(status, CryptlexErrorBody(detail)))]
          [] OTHER ->
               [made EXCEPT !.response = Some(_response(200, << >>))]

\* Mutant of the block: the caller's customer label is sent upstream with
\* the license fields.
CreateLicense_SendsCustomer(out, product_id, body, upstream) ==
    LET labelled == DictSet(body, "customer",
                            OrDefault(out.caller[1].customer, EmptyStr))
        call == create_license(product_id, labelled, upstream)
        made == [out EXCEPT !.calls = <<call>>]
        status == IF ~IsNone(call.response)
                  THEN call.response[1].status_code ELSE 502
        detail == IF ~IsNone(call.response)
                  THEN call.response[1].text ELSE call.message
    IN  CASE call.exc = "none" ->
               [made EXCEPT !.response = Some(_response(200, call.ret[1]))]
          [] call.exc = "HTTPError" ->
               [made EXCEPT !.response =
                   Some(_response(status, CryptlexErrorBody(detail)))]
          [] OTHER ->
               [made EXCEPT !.response =
                   Some(_response(500, InternalErrorBody))]

\* Mutant of the block: an upstream HTTP error is always answered 502.
CreateLicense_Always502(out, product_id, body, upstream) ==
    LET call == create_license(product_id, body, upstream)
        made == [out EXCEPT !.calls = <<call>>]
        detail == IF ~IsNone(call.response)
                  THEN call.response[1].text ELSE call.message
    IN  CASE call.exc = "none" ->
               [made EXCEPT !.response = Some(_response(200, call.ret[1]))]
          [] call.exc = "HTTPError" ->
               [made EXCEPT !.response =
                   Some(_response(502, CryptlexErrorBody(detail)))]
          [] OTHER ->
               [made EXCEPT !.response =
                   Some(_response(500, InternalErrorBody))]

\* The "Create license" block of handler: the call and its three exits.
CreateLicense(out, product_id, body, upstream) ==
    LET call == create_license(product_id, body, upstream)
        made == [out EXCEPT !.calls = <<call>>]
        status == IF ~IsNone(call.response)
                  THEN call.response[1].status_code ELSE 502
        detail == IF ~IsNone(call.response)
                  THEN call.response[1].text ELSE call.message
    IN  CASE call.exc = "none" ->
               [made EXCEPT !.response = Some(_response(200, call.ret[1]))]
          [] call.exc = "HTTPError" ->
               [made EXCEPT !.response =
                   Some(_response(status, CryptlexErrorBody(detail)))]
          [] OTHER ->
               [made EXCEPT !.response =
                   Some(_response(500, InternalErrorBody))]

\* Mutant of the fallback: the second `if not product_id` is missing.
ResolveAndCreate_SkipsRequiredCheck(out, body, secretOK, upstream) ==
    LET explicit == PopProductId(body)
        rest == DictWithout(body, "productId")
        creds == get_cryptlex_credentials(secretOK)
        fetched == [out EXCEPT !.fetches = creds.fetches,
                               !.cache = creds.cache]
        default == creds.ret[1].product_id
    IN  IF ~Not(explicit)
        THEN CreateLicense(out, explicit[1], rest, upstream)
        ELSE IF creds.exc # "none"
        THEN [fetched EXCEPT !.exc = creds.exc]
        ELSE CreateLicense(fetched, OrDefault(default, EmptyStr), rest,
                           upstream)

\* The product-id fallback and everything after it, body being normalized.
ResolveAndCreate(out, body, secretOK, upstream) ==
    LET explicit == PopProductId(body)
        rest == DictWithout(body, "productId")
        creds == get_cryptlex_credentials(secretOK)
        fetched == [out EXCEPT !.fetches = creds.fetches,
                               !.cache = creds.cache]
        default == creds.ret[1].product_id
    IN  IF ~Not(explicit)
        THEN CreateLicense(out, explicit[1], rest, upstream)
        ELSE IF creds.exc # "none"
        THEN [fetched EXCEPT !.exc = creds.exc]
        ELSE IF Not(default)
        THEN [fetched EXCEPT !.response =
                 Some(_response(400, ProductIdRequiredBody))]
        ELSE CreateLicense(fetched, default[1], rest, upstream)

\* Mutant of handler: the body is parsed before the caller is checked.
handler_ParsesBeforeAuth(event, storeOK, secretOK, upstream) ==
    LET caller == validate_api_key(event, storeOK)
        out == Outcome(caller)
        loaded == json_loads(BodyOrEmptyObject(event))
        parsed == [out EXCEPT !.parsed = TRUE]
        body == _normalize_body(loaded.value.items)
    IN  IF caller.exc # "none"
        THEN [out EXCEPT !.exc = caller.exc]
        ELSE IF loaded.exc # "none"
        THEN [parsed EXCEPT !.response = Some(_response(400, InvalidJsonBody))]
        ELSE IF IsNone(caller.ret)
        THEN [parsed EXCEPT !.response =
                 Some(_response(401, UnauthorizedBody))]
        ELSE IF loaded.value.type # "object"
        THEN [parsed EXCEPT !.exc = "AttributeError"]
        ELSE ResolveAndCreate([parsed EXCEPT !.normalized = Some(body)],
                              body, secretOK, upstream)

\* handler(event, context), given what the key store, the secret store and
\* the upstream do when called.
handler(event, storeOK, secretOK, upstream) ==
    LET caller == validate_api_key(event, storeOK)
        out == Outcome(caller)
        loaded == json_loads(BodyOrEmptyObject(event))
        parsed == [out EXCEPT !.parsed = TRUE]
        body == _normalize_body(loaded.value.items)
    IN  IF caller.exc # "none"
        THEN [out EXCEPT !.exc = caller.exc]
        ELSE IF IsNone(caller.ret)
        THEN [out EXCEPT !.response = Some(_response(401, UnauthorizedBody))]
        ELSE IF loaded.exc # "none"
        THEN [parsed EXCEPT !.response = Some(_response(400, InvalidJsonBody))]
        ELSE IF loaded.value.type # "object"
        THEN [parsed EXCEPT !.exc = "AttributeError"]
        ELSE ResolveAndCreate([parsed EXCEPT !.normalized = Some(body)],
                              body, secretOK, upstream)

---------------------------------------------------------------------------
(* scripts/manage_api_keys.py *)

\* create_key(customer_name): put_item of a new active item under a fresh
\* random key (secrets.token_urlsafe(32) does not repeat a key in use).
create_key(api_key, customer_name, now) ==
    [table EXCEPT ![api_key] =
        Some(Item(api_key, Some(customer_name), Some(TRUE), Some(now)))]

\* Mutant of revoke_key: delete_item instead of update_item.
revoke_key_Deletes(api_key) ==
    [table EXCEPT ![api_key] = None]

\* revoke_key(api_key): update_item SET active = false. DynamoDB's
\* update_item creates the item when the key holds none.
revoke_key(api_key) ==
    [table EXCEPT ![api_key] =
        IF IsNone(table[api_key])
        THEN Some(Item(api_key, None, Some(FALSE), None))
        ELSE Some([table[api_key][1] EXCEPT !.active = Some(FALSE)])]

---------------------------------------------------------------------------
(* The state machine. *)

NbIdle == [phase |-> "idle", body |-> << >>, out |-> << >>, again |-> << >>]

\* No function is being run on its own.
AuxIdle == seen = None /\ twin = None /\ th = << >>

Init ==
    /\ table = [k \in ApiKeys |-> None]
    /\ secret \in Secrets
    /\ _secrets_cache = [credentials |-> None]
    /\ _dynamodb = None
    /\ inv = None
    /\ nb = NbIdle
    /\ AuxIdle

\* What the collaborators do during one invocation. When the key store is
\* down nothing after it is called, so one such world is enough.
Worlds ==
    [storeOK : {TRUE}, secretOK : BOOLEAN, upstream : UpstreamOutcomes]
    \cup [storeOK : {FALSE}, secretOK : {TRUE},
          upstream : {u \in UpstreamOutcomes : u.kind = "ok"}]

\* One invocation of the provision handler, from the event to the response
\* or the exception. inv keeps the event, the cache the invocation found
\* and its outcome until the host has delivered it.
Invoke ==
    /\ IsNone(inv)
    /\ \E event \in Events, world \in Worlds :
          LET result == handler(event, world.storeOK, world.secretOK,
                                world.upstream)
          IN  /\ inv' = Some([event |-> event,
                              cacheBefore |-> _secrets_cache,
                              result |-> result])
              /\ _secrets_cache' = result.cache
              /\ _dynamodb' = result.dynamodb
    /\ UNCHANGED <<table, secret, nb, aux>>

\* The host delivers the response (or the failure) of the invocation.
Deliver ==
    /\ ~IsNone(inv)
    /\ inv' = None
    /\ UNCHANGED <<table, secret, _secrets_cache, _dynamodb, nb, aux>>

CreateKey ==
    /\ IsNone(inv)
    /\ \E api_key \in ApiKeys, customer \in Customers, now \in Timestamps :
          /\ IsNone(table[api_key])
          /\ table' = create_key(api_key, customer, now)
    /\ UNCHANGED <<secret, _secrets_cache, _dynamodb, inv, nb, aux>>

RevokeKey ==
    /\ IsNone(inv)
    /\ \E api_key \in ApiKeys : table' = revoke_key(api_key)
    /\ UNCHANGED <<secret, _secrets_cache, _dynamodb, inv, nb, aux>>

\* The operator of the deployment stores another secret.
ChangeSecret ==
    /\ IsNone(inv)
    /\ \E s \in Secrets : s # secret /\ secret' = s
    /\ UNCHANGED <<table, _secrets_cache, _dynamodb, inv, nb, aux>>

Next == Invoke \/ Deliver \/ CreateKey \/ RevokeKey \/ ChangeSecret

Spec == Init /\ [][Next]_vars

---------------------------------------------------------------------------
(* Two invocations on two labellings of the caller's record. *)

\* Labels and creation times other than those the keys were created with.
OtherCustomers == {"Acme Inc"}
OtherTimestamps == {"t2"}

\* An invocation of the provision handler of which only the module state
\* it leaves is kept.
Serve ==
    /\ IsNone(twin)
    /\ \E event \in Events, world \in Worlds :
          LET result == handler(event, world.storeOK, world.secretOK,
                                world.upstream)
          IN  /\ _secrets_cache' = result.cache
              /\ _dynamodb' = result.dynamodb
    /\ UNCHANGED <<table, secret, inv, nb, aux>>

\* The event is handled with the caller's record as it is. twin keeps the
\* event, what the collaborators do, and the outcome; the module state is
\* left as it was, so that the second invocation starts from it too.
InvokeFirst ==
    /\ IsNone(twin)
    /\ \E api_key \in ApiKeys, body \in EventBodies, world \in Worlds :
          LET event == [headers |-> Some([Authorization |->
                                            Some(BearerPrefix \o api_key)]),
                        body |-> body]
          IN  /\ ~IsNone(table[api_key])
              /\ OrDefault(table[api_key][1].active, TRUE)
              /\ twin' = Some([event |-> event, world |-> world,
                               relabelled |-> FALSE,
                               first |-> handler(event, world.storeOK,
                                   world.secretOK, world.upstream),
                               second |-> None])
    /\ UNCHANGED <<table, secret, _secrets_cache, _dynamodb, inv, nb,
                   seen, th>>

\* The customer or the created_at of the caller's record is replaced.
Relabel ==
    /\ ~IsNone(twin)
    /\ ~twin[1].relabelled
    /\ \E customer \in Customers \cup OtherCustomers,
          now \in Timestamps \cup OtherTimestamps :
          LET api_key == SliceFrom(twin[1].event.headers[1].Authorization[1],
                                   Len(BearerPrefix))
          IN  /\ <<Some(customer), Some(now)>>
                   # <<table[api_key][1].customer,
                       table[api_key][1].created_at>>
              /\ table' = [table EXCEPT ![api_key] =
                              Some([@[1] EXCEPT !.customer = Some(customer),
                                                !.created_at = Some(now)])]
    /\ twin' = Some([twin[1] EXCEPT !.relabelled = TRUE])
    /\ UNCHANGED <<secret, _secrets_cache, _dynamodb, inv, nb, seen, th>>

\* The same event is handled again, with the same collaborators.
InvokeSecond ==
    /\ ~IsNone(twin)
    /\ twin[1].relabelled
    /\ IsNone(twin[1].second)
    /\ twin' = Some([twin[1] EXCEPT !.second =
                        Some(handler(twin[1].event, twin[1].world.storeOK,
                                     twin[1].world.secretOK,
                                     twin[1].world.upstream))])
    /\ UNCHANGED <<table, secret, _secrets_cache, _dynamodb, inv, nb,
                   seen, th>>

NextTwice ==
    \/ IsNone(twin) /\ CreateKey
    \/ Serve
    \/ InvokeFirst
    \/ Relabel
    \/ InvokeSecond

SpecTwice == Init /\ [][NextTwice]_vars

---------------------------------------------------------------------------
(* The two lazy initializations, called by several requests at once. *)

NumThreads == 2
Threads == 1..NumThreads

\* Mutant of the store: the entry is first set to an empty dict, to be
\* filled field by field.
PublishCredentials_FieldByField(creds) ==
    [_secrets_cache EXCEPT !.credentials = Some([product_id |-> None])]

\* _secrets_cache["credentials"] = creds: one store of the whole value.
PublishCredentials(creds) ==
    [_secrets_cache EXCEPT !.credentials = Some(creds)]

\* A thread calls _get_table() and then get_cryptlex_credentials(), as a
\* request that passes the authorization does. resource and creds are its
\* locals, handle and ret what the two calls returned to it.
ThreadStart ==
    [pc |-> "table_check", resource |-> None, handle |-> None,
     creds |-> None, ret |-> None]

InitConcurrent ==
    /\ table = [k \in ApiKeys |-> None]
    /\ secret \in Secrets
    /\ _secrets_cache = [credentials |-> None]
    /\ _dynamodb = None
    /\ inv = None
    /\ nb = NbIdle
    /\ seen = None
    /\ twin = None
    /\ th = [t \in Threads |-> ThreadStart]

At(t, pc) == th[t].pc = pc
Goto(t, pc) == [th EXCEPT ![t].pc = pc]

\* auth.py:10, `if _dynamodb is None`
TableCheck(t) ==
    /\ At(t, "table_check")
    /\ th' = Goto(t, IF IsNone(_dynamodb) THEN "table_create"
                     ELSE "table_return")
    /\ UNCHANGED <<table, secret, _secrets_cache, _dynamodb, inv, nb,
                   seen, twin>>

\* auth.py:11, the call boto3.resource("dynamodb")
TableCreate(t) ==
    /\ At(t, "table_create")
    /\ th' = [th EXCEPT ![t].pc = "table_assign",
                        ![t].resource = Some("dynamodb")]
    /\ UNCHANGED <<table, secret, _secrets_cache, _dynamodb, inv, nb,
                   seen, twin>>

\* auth.py:11, the store to the global _dynamodb
TableAssign(t) ==
    /\ At(t, "table_assign")
    /\ _dynamodb' = th[t].resource
    /\ th' = Goto(t, "table_return")
    /\ UNCHANGED <<table, secret, _secrets_cache, inv, nb, seen, twin>>

\* auth.py:12, `return _dynamodb.Table(API_KEYS_TABLE)` reads the global
TableReturn(t) ==
    /\ At(t, "table_return")
    /\ th' = [th EXCEPT ![t].pc = "creds_check",
                        ![t].handle = _dynamodb]
    /\ UNCHANGED <<table, secret, _secrets_cache, _dynamodb, inv, nb,
                   seen, twin>>

\* config.py:15, `if "credentials" in _secrets_cache`
CredsCheck(t) ==
    /\ At(t, "creds_check")
    /\ th' = Goto(t, IF ~IsNone(_secrets_cache.credentials)
                     THEN "creds_hit" ELSE "creds_fetch")
    /\ UNCHANGED <<table, secret, _secrets_cache, _dynamodb, inv, nb,
                   seen, twin>>

\* config.py:16, `return _secrets_cache["credentials"]`
CredsHit(t) ==
    /\ At(t, "creds_hit")
    /\ th' = [th EXCEPT ![t].pc = "done",
                        ![t].ret = _secrets_cache.credentials]
    /\ UNCHANGED <<table, secret, _secrets_cache, _dynamodb, inv, nb,
                   seen, twin>>

\* config.py:18-20, get_secret_value answers and json.loads decodes it
CredsFetch(t) ==
    /\ At(t, "creds_fetch")
    /\ th' = [th EXCEPT ![t].pc = "creds_publish",
                        ![t].creds = Some(secret)]
    /\ UNCHANGED <<table, secret, _secrets_cache, _dynamodb, inv, nb,
                   seen, twin>>

\* config.py:19, get_secret_value raises
CredsFetchFails(t) ==
    /\ At(t, "creds_fetch")
    /\ th' = Goto(t, "raised")
    /\ UNCHANGED <<table, secret, _secrets_cache, _dynamodb, inv, nb,
                   seen, twin>>

\* config.py:21
CredsPublish(t) ==
    /\ At(t, "creds_publish")
    /\ _secrets_cache' = PublishCredentials(th[t].creds[1])
    /\ th' = Goto(t, "creds_return")
    /\ UNCHANGED <<table, secret, _dynamodb, inv, nb, seen, twin>>

\* config.py:22, `return creds`
CredsReturn(t) ==
    /\ At(t, "creds_return")
    /\ th' = [th EXCEPT ![t].pc = "done", ![t].ret = th[t].creds]
    /\ UNCHANGED <<table, secret, _secrets_cache, _dynamodb, inv, nb,
                   seen, twin>>

NextConcurrent ==
    \/ \E t \in Threads :
          \/ TableCheck(t) \/ TableCreate(t) \/ TableAssign(t)
          \/ TableReturn(t)
          \/ CredsCheck(t) \/ CredsHit(t) \/ CredsFetch(t)
          \/ CredsFetchFails(t) \/ CredsPublish(t) \/ CredsReturn(t)
    \/ ChangeSecret

SpecConcurrent == InitConcurrent /\ [][NextConcurrent]_vars

---------------------------------------------------------------------------
(* validate_api_key alone, on a key store that other writers also fill. *)

\* The status list_keys prints for an item.
list_keys_status(item) ==
    IF OrDefault(item.active, TRUE) THEN "active" ELSE "REVOKED"

\* A writer other than the tool puts an item without active attribute.
PutItemWithoutActive ==
    /\ IsNone(seen)
    /\ \E api_key \in ApiKeys, customer \in Customers, now \in Timestamps :
          /\ IsNone(table[api_key])
          /\ table' = [table EXCEPT ![api_key] =
                          Some(Item(api_key, Some(customer), None,
                                    Some(now)))]
    /\ UNCHANGED <<secret, _secrets_cache, _dynamodb, inv, nb, aux>>

\* One call of validate_api_key; seen keeps the event and what the call
\* returned or raised, and the run ends there.
Validate ==
    /\ IsNone(seen)
    /\ \E headers \in EventHeaders, storeOK \in BOOLEAN :
          LET event == [headers |-> headers, body |-> None]
              result == validate_api_key(event, storeOK)
          IN  /\ seen' = Some([event |-> event, result |-> result])
              /\ _dynamodb' = result.dynamodb
    /\ UNCHANGED <<table, secret, _secrets_cache, inv, nb, twin, th>>

NextValidate ==
    \/ IsNone(seen) /\ CreateKey
    \/ IsNone(seen) /\ RevokeKey
    \/ PutItemWithoutActive
    \/ Validate

SpecValidate == Init /\ [][NextValidate]_vars

---------------------------------------------------------------------------
(* The normalizer alone, on bodies drawn from a bounded set. *)

NormDicts == {d \in DictsUpTo(MaxNormFields, NormValues) : WellFormedDict(d)}

InitNormalize ==
    /\ table = [k \in ApiKeys |-> None]
    /\ secret \in Secrets
    /\ _secrets_cache = [credentials |-> None]
    /\ _dynamodb = None
    /\ inv = None
    /\ AuxIdle
    /\ \E d \in NormDicts :
          nb = [phase |-> "drawn", body |-> d, out |-> << >>, again |-> << >>]

NormalizeOnce ==
    /\ nb.phase = "drawn"
    /\ nb' = [nb EXCEPT !.phase = "once", !.out = _normalize_body(nb.body)]
    /\ UNCHANGED <<table, secret, _secrets_cache, _dynamodb, inv, aux>>

NormalizeAgain ==
    /\ nb.phase = "once"
    /\ nb' = [nb EXCEPT !.phase = "twice", !.again = _normalize_body(nb.out)]
    /\ UNCHANGED <<table, secret, _secrets_cache, _dynamodb, inv, aux>>

NextNormalize == NormalizeOnce \/ NormalizeAgain

SpecNormalize == InitNormalize /\ [][NextNormalize]_vars

---------------------------------------------------------------------------
(* Vocabulary of the properties. *)

Done == ~IsNone(inv)
Event == inv[1].event
Result == inv[1].result
Status == Result.response[1].statusCode
Responded == ~IsNone(Result.response)
Authorized == ~IsNone(Result.caller)

\* The Authorization header of the event, None when there is none.
HeaderOf(event) ==
    IF IsNone(event.headers) THEN None ELSE event.headers[1].Authorization

\* The header is "Bearer " followed by a non-empty key.
BearerKey(h, k) == k # << >> /\ h = BearerPrefix \o k
WellFormedBearer(event) ==
    /\ ~IsNone(HeaderOf(event))
    /\ \E k \in ApiKeys : BearerKey(HeaderOf(event)[1], k)
KeyOf(event) ==
    CHOOSE k \in ApiKeys : BearerKey(HeaderOf(event)[1], k)

\* The header is absent, empty, does not begin with "Bearer ", or carries
\* an empty key.
BeginsWithBearer(h) ==
    /\ Len(h) >= Len(BearerPrefix)
    /\ \A i \in 1..Len(BearerPrefix) : h[i] = BearerPrefix[i]
MalformedHeader(event) ==
    \/ IsNone(HeaderOf(event))
    \/ HeaderOf(event)[1] = << >>
    \/ ~BeginsWithBearer(HeaderOf(event)[1])
    \/ HeaderOf(event)[1] = BearerPrefix

Unauthorized401 == Some(_response(401, UnauthorizedBody))

\* The invocation went no further than the authorization check.
NoLaterStep ==
    /\ ~Result.parsed
    /\ IsNone(Result.normalized)
    /\ Result.fetches = 0
    /\ Result.calls = << >>
    /\ Result.cache = inv[1].cacheBefore

---------------------------------------------------------------------------
(* C1 *)

MissingKey(k) == IsNone(table[k])
RevokedKey(k) == ~IsNone(table[k]) /\ table[k][1].active = Some(FALSE)

\* C1: for a well-formed bearer key that the key store answers for,
\* validate_api_key returns None both when the store holds no record and
\* when the record's active flag is false, and the handler gives the same
\* 401 response in the two cases.
C1_RevokedLikeMissing ==
    (/\ Done
     /\ WellFormedBearer(Event)
     /\ Result.exc = "none"
     /\ MissingKey(KeyOf(Event)) \/ RevokedKey(KeyOf(Event)))
    => /\ IsNone(Result.caller)
       /\ Result.response = Unauthorized401

\* A revoked key, created by the tool and then revoked, is presented.
C1_Witness ==
    /\ Done
    /\ WellFormedBearer(Event)
    /\ RevokedKey(KeyOf(Event))
    /\ ~IsNone(table[KeyOf(Event)][1].customer)
    /\ Result.response = Unauthorized401

---------------------------------------------------------------------------
(* C2 *)

\* C2: with the Authorization header absent, empty, not beginning with
\* "Bearer ", or carrying an empty key, validate_api_key returns None and
\* the key store is not queried.
C2_MalformedHeaderNoLookup ==
    (Done /\ MalformedHeader(Event))
    => /\ IsNone(Result.caller)
       /\ Result.exc = "none"
       /\ Result.lookups = << >>
       /\ Result.response = Unauthorized401

\* The prefix without its space, followed by the key of an active record.
C2_Witness ==
    /\ Done
    /\ ~IsNone(HeaderOf(Event))
    /\ HeaderOf(Event)[1] = <<"B", "e", "a", "r", "e", "r", "k", "1">>
    /\ \E k \in ApiKeys :
          ~IsNone(table[k]) /\ table[k][1].active = Some(TRUE)
    /\ Result.lookups = << >>

---------------------------------------------------------------------------
(* C3 *)

---------------------------------------------------------------------------
(* C4 *)

InvalidJsonBodyText(event) ==
    ~IsNone(event.body) /\ event.body[1] = InvalidText

\* C4: an authorized request whose body is not valid JSON is answered 400
\* and create_license is not called.
C4_InvalidJsonIs400 ==
    (Done /\ Authorized /\ InvalidJsonBodyText(Event))
    => /\ Responded
       /\ Status = 400
       /\ Result.calls = << >>

C4_Witness ==
    /\ Done
    /\ Authorized
    /\ InvalidJsonBodyText(Event)
    /\ Responded
    /\ Status = 400
    /\ ~IsNone(secret.product_id)

---------------------------------------------------------------------------
(* C5, C6, C7: the product id and the forwarded fields. *)

\* The body is absent, empty or a JSON object; BodyDict is the dict it
\* decodes to.
IsObjectBody(event) ==
    \/ IsNone(event.body)
    \/ event.body[1] = EmptyText
    \/ event.body[1].kind = "json" /\ event.body[1].value.type = "object"
BodyDict(event) ==
    IF IsNone(event.body) \/ event.body[1] = EmptyText
    THEN << >>
    ELSE event.body[1].value.items

ProductIdNames == {"product_id", "productId"}
ExplicitAt(d) == {i \in 1..Len(d) : d[i][1] \in ProductIdNames}
ExplicitIds(d) == {d[i][2] : i \in ExplicitAt(d)}
OmitsProductId(event) ==
    IsObjectBody(event) /\ ExplicitAt(BodyDict(event)) = {}
\* The product id the body gives last, in the order of its fields.
LastExplicit(d) ==
    d[CHOOSE i \in ExplicitAt(d) : \A j \in ExplicitAt(d) : j <= i][2]

\* The credentials the process has resolved: those in its cache.
CredentialsResolved == ~IsNone(_secrets_cache.credentials)
ResolvedDefault == _secrets_cache.credentials[1].product_id

\* C5 as stated: an authorized request omits the product id while the
\* secret store holds no default product id, and the handler answers 400
\* without calling create_license.
C5_AsStated ==
    (/\ Done
     /\ Authorized
     /\ Result.exc = "none"
     /\ OmitsProductId(Event)
     /\ IsNone(secret.product_id))
    => /\ Responded
       /\ Status = 400
       /\ Result.calls = << >>

\* C5, amended: an authorized request omits the product id while the
\* credentials the process has resolved (cached by an earlier fetch, or
\* fetched by this invocation) hold no default product id, and the handler
\* answers 400 without calling create_license.
C5_NoDefaultIs400 ==
    (/\ Done
     /\ Authorized
     /\ OmitsProductId(Event)
     /\ CredentialsResolved
     /\ IsNone(ResolvedDefault))
    => /\ Responded
       /\ Status = 400
       /\ Result.response = Some(_response(400, ProductIdRequiredBody))
       /\ Result.calls = << >>

\* The invocation itself fetched a secret without default product id.
C5_Witness ==
    /\ Done
    /\ Authorized
    /\ OmitsProductId(Event)
    /\ Result.fetches = 1
    /\ CredentialsResolved
    /\ IsNone(ResolvedDefault)
    /\ Status = 400

\* C6 as stated: an authorized request gives an explicit product id, of
\* whatever value, and create_license receives that id.
C6_AsStated ==
    (/\ Done
     /\ Authorized
     /\ Result.exc = "none"
     /\ IsObjectBody(Event)
     /\ ExplicitAt(BodyDict(Event)) # {})
    => /\ Len(Result.calls) = 1
       /\ Result.calls[1].product_id \in ExplicitIds(BodyDict(Event))

\* C6, amended: an authorized request gives an explicit product id whose
\* value is truthy (the last given when both names are used), and
\* create_license receives that id; the secret store is not consulted.
C6_ExplicitOverridesDefault ==
    (/\ Done
     /\ Authorized
     /\ IsObjectBody(Event)
     /\ ExplicitAt(BodyDict(Event)) # {}
     /\ Truthy(LastExplicit(BodyDict(Event))))
    => /\ Len(Result.calls) = 1
       /\ Result.calls[1].product_id = LastExplicit(BodyDict(Event))
       /\ Result.fetches = 0
       /\ Result.cache = inv[1].cacheBefore

\* An explicit id is passed although a different default is cached.
C6_Witness ==
    /\ Done
    /\ Authorized
    /\ IsObjectBody(Event)
    /\ ExplicitAt(BodyDict(Event)) # {}
    /\ Truthy(LastExplicit(BodyDict(Event)))
    /\ CredentialsResolved
    /\ ~IsNone(ResolvedDefault)
    /\ ResolvedDefault[1] # LastExplicit(BodyDict(Event))
    /\ Len(Result.calls) = 1

\* The upstream name of a body field.
UpstreamName(k) ==
    CASE k = "product_id" -> "productId"
      [] k = "allowed_activations" -> "allowedActivations"
      [] OTHER -> k

\* The product id the request resolves to: a truthy explicit id, else the
\* default of the resolved credentials.
HasResolvedProductId(event) ==
    \/ /\ ExplicitAt(BodyDict(event)) # {}
       /\ Truthy(LastExplicit(BodyDict(event)))
    \/ /\ CredentialsResolved
       /\ ~IsNone(ResolvedDefault)
       /\ Truthy(ResolvedDefault[1])
ResolvedProductId(event) ==
    IF ExplicitAt(BodyDict(event)) # {} /\ Truthy(LastExplicit(BodyDict(event)))
    THEN LastExplicit(BodyDict(event))
    ELSE ResolvedDefault[1]

\* Every body field but the product id, under its upstream name.
RenamedFields(d) ==
    {<<UpstreamName(d[i][1]), d[i][2]>> :
        i \in {j \in 1..Len(d) : d[j][1] \notin ProductIdNames}}
\* The same, keeping of the fields with one upstream name the last one.
LastRenamedFields(d) ==
    {<<UpstreamName(d[i][1]), d[i][2]>> :
        i \in {j \in 1..Len(d) :
                 /\ d[j][1] \notin ProductIdNames
                 /\ \A l \in (j + 1)..Len(d) :
                       UpstreamName(d[l][1]) # UpstreamName(d[j][1])}}

\* C7 as stated: create_license is called with the resolved product id and
\* with exactly the other body fields, each under its upstream name with
\* its value.
C7_AsStated ==
    (/\ Done
     /\ Authorized
     /\ IsObjectBody(Event)
     /\ HasResolvedProductId(Event))
    => /\ Len(Result.calls) = 1
       /\ Result.calls[1].product_id = ResolvedProductId(Event)
       /\ Result.calls[1].extra = RenamedFields(BodyDict(Event))

\* C7, amended: create_license is called with the resolved product id and
\* with the other body fields, each under its upstream name with its value;
\* of two fields with the same upstream name only the later one is
\* forwarded. The product id is not among the extra fields, and an absent
\* body is forwarded as no extra field.
C7_ForwardsNormalizedFields ==
    (/\ Done
     /\ Authorized
     /\ IsObjectBody(Event)
     /\ HasResolvedProductId(Event))
    => /\ Len(Result.calls) = 1
       /\ Result.calls[1].product_id = ResolvedProductId(Event)
       /\ Result.calls[1].extra = LastRenamedFields(BodyDict(Event))
       /\ \A kv \in Result.calls[1].extra : kv[1] \notin ProductIdNames
       /\ IsNone(Event.body) => Result.calls[1].extra = {}

\* A simplified field and an unmapped field are forwarded with an explicit
\* product id.
C7_Witness ==
    /\ Done
    /\ Authorized
    /\ IsObjectBody(Event)
    /\ Len(Result.calls) = 1
    /\ Result.calls[1].product_id = "str:A"
    /\ \E d \in {BodyDict(Event)} :
          /\ Len(d) = 2
          /\ d[1][1] = "product_id"
          /\ d[2] = <<"allowed_activations", "str:A">>
    /\ Result.calls[1].extra = {<<"allowedActivations", "str:A">>}

---------------------------------------------------------------------------
(* C8, C9: the normalizer, under SpecNormalize. *)

Normalized == nb.phase \in {"once", "twice"}

\* The simplified name of a body field.
SimplifiedName(k) ==
    CASE k = "productId" -> "product_id"
      [] k = "allowedActivations" -> "allowed_activations"
      [] OTHER -> k

\* A field set: no field is written twice, under either of its names.
IsFieldSet(d) ==
    \A i, j \in 1..Len(d) :
        UpstreamName(d[i][1]) = UpstreamName(d[j][1]) => i = j

\* A field set written with the upstream names, and with the simplified.
UpstreamForm(d) == [i \in 1..Len(d) |-> <<UpstreamName(d[i][1]), d[i][2]>>]
SimplifiedForm(d) ==
    [i \in 1..Len(d) |-> <<SimplifiedName(d[i][1]), d[i][2]>>]

\* C8: the normalized map of a field set is the one its upstream-name form
\* normalizes to and the one its simplified-name form normalizes to, and
\* normalizing the normalized map again leaves it unchanged.
C8_NormalizeIdempotent ==
    /\ (Normalized /\ IsFieldSet(nb.body))
       => /\ DictItems(_normalize_body(UpstreamForm(nb.body)))
               = DictItems(_normalize_body(SimplifiedForm(nb.body)))
          /\ DictItems(nb.out)
               = DictItems(_normalize_body(SimplifiedForm(nb.body)))
    /\ nb.phase = "twice" => nb.again = nb.out

\* A field set mixing the two styles has been normalized twice.
C8_Witness ==
    /\ nb.phase = "twice"
    /\ IsFieldSet(nb.body)
    /\ Len(nb.body) = 3
    /\ "allowed_activations" \in DictKeys(nb.body)
    /\ "productId" \in DictKeys(nb.body)
    /\ "type" \in DictKeys(nb.body)
    /\ nb.again = nb.out
    /\ nb.out # nb.body

\* The simplified names that the body holds together with their upstream
\* name, the two values differing.
Conflicts(d) ==
    {k \in DictKeys(d) :
        /\ UpstreamName(k) # k
        /\ UpstreamName(k) \in DictKeys(d)
        /\ DictGet(d, k, EmptyStr) # DictGet(d, UpstreamName(k), EmptyStr)}

\* C9 as stated: when both names of a field are present with different
\* values, the normalized map holds the value given under the simplified
\* name, in whichever order the two appear.
C9_AsStated ==
    Normalized
    => \A k \in Conflicts(nb.body) :
          DictGet(nb.out, UpstreamName(k), EmptyStr)
              = DictGet(nb.body, k, EmptyStr)

\* C9, amended: when both names of a field are present with different
\* values, the normalized map holds the value of whichever of the two
\* comes later in the body.
C9_LaterKeyWins ==
    Normalized
    => \A k \in Conflicts(nb.body) :
          DictGet(nb.out, UpstreamName(k), EmptyStr)
              = IF DictIndex(nb.body, k) > DictIndex(nb.body, UpstreamName(k))
                THEN DictGet(nb.body, k, EmptyStr)
                ELSE DictGet(nb.body, UpstreamName(k), EmptyStr)

\* The upstream name comes later and its value is the one kept.
C9_Witness ==
    /\ Normalized
    /\ "allowed_activations" \in Conflicts(nb.body)
    /\ DictIndex(nb.body, "allowed_activations")
           < DictIndex(nb.body, "allowedActivations")
    /\ DictGet(nb.out, "allowedActivations", EmptyStr)
           = DictGet(nb.body, "allowedActivations", EmptyStr)

---------------------------------------------------------------------------
(* C10 *)

UpstreamHttpError ==
    Done /\ Len(Result.calls) = 1 /\ Result.calls[1].exc = "HTTPError"

\* C10: when create_license raises an HTTPError the response status is the
\* upstream's status code and the body's detail is the upstream's response
\* text; when the error carries no response the status is 502.
C10_UpstreamErrorForwarded ==
    UpstreamHttpError
    => /\ Responded
       /\ ~IsNone(Result.calls[1].response)
             => /\ Status = Result.calls[1].response[1].status_code
                /\ Result.response[1].body
                     = json_dumps(<<<<"error", "Cryptlex API error">>,
                                    <<"detail",
                                      Result.calls[1].response[1].text>>>>)
       /\ IsNone(Result.calls[1].response) => Status = 502

\* The upstream answered 503 and the handler answers 503.
C10_Witness ==
    /\ UpstreamHttpError
    /\ ~IsNone(Result.calls[1].response)
    /\ Result.calls[1].response[1].status_code = 503
    /\ Status = 503

---------------------------------------------------------------------------
(* C11 *)

\* A step of the invocation failed in a way the handler does not expect:
\* an exception left it, or the upstream call raised something that is not
\* an HTTP error.
UnanticipatedFailure ==
    \/ Result.exc # "none"
    \/ /\ Len(Result.calls) = 1
       /\ Result.calls[1].exc \notin {"none", "HTTPError"}

InternalError500 == Some(_response(500, InternalErrorBody))

\* C11 as stated: a failure at any step (the key-store lookup, normalizing
\* a parsed body that is not an object, the secret fetch, the upstream
\* call) is answered 500 with the generic internal-error message, and no
\* failure leaves the handler without a response.
C11_AsStated ==
    Done => /\ Responded
            /\ UnanticipatedFailure => Result.response = InternalError500

---------------------------------------------------------------------------
(* C12 *)

\* C12: the response is 200 only when create_license was called and
\* returned, and its body is then the JSON encoding of exactly the object
\* create_license returned; an invocation in which a step failed, or in
\* which create_license was not called or raised, is not answered 200.
C12_SuccessOnlyFromReturnedLicense ==
    Done
    => /\ (Responded /\ Status = 200)
            => /\ Result.exc = "none"
               /\ Len(Result.calls) = 1
               /\ Result.calls[1].exc = "none"
               /\ ~IsNone(Result.calls[1].ret)
               /\ Result.response[1].body = json_dumps(Result.calls[1].ret[1])
       /\ (\/ Result.exc # "none"
           \/ Result.calls = << >>
           \/ Result.calls[1].exc # "none")
            => ~(Responded /\ Status = 200)

\* The upstream created the license and the handler answers 200 with it.
C12_Witness ==
    /\ Done
    /\ Responded
    /\ Status = 200
    /\ Len(Result.calls) = 1
    /\ Result.calls[1].ret = Some(LicenseObject)
    /\ Result.response[1].body = json_dumps(LicenseObject)


---------------------------------------------------------------------------
(* C13 *)

\* The invocation needs the credentials: it is authorized, its body is an
\* object, and the body gives no truthy product id.
NeedsCredentials(i) ==
    /\ ~IsNone(i.result.caller)
    /\ IsObjectBody(i.event)
    /\ \/ ExplicitAt(BodyDict(i.event)) = {}
       \/ ~Truthy(LastExplicit(BodyDict(i.event)))

\* C13: once the process has fetched the secret, the cache never changes
\* again, no later invocation reads the secret store, and an invocation
\* that needs the credentials gets those of the first fetch, whatever the
\* secret store holds by then.
C13_FetchedOncePerProcess ==
    [][CredentialsResolved
       => /\ _secrets_cache' = _secrets_cache
          /\ (IsNone(inv) /\ ~IsNone(inv'))
               => /\ inv'[1].result.fetches = 0
                  /\ NeedsCredentials(inv'[1])
                       => IF IsNone(ResolvedDefault)
                          THEN /\ inv'[1].result.calls = << >>
                               /\ inv'[1].result.response
                                    = Some(_response(400, ProductIdRequiredBody))
                          ELSE /\ Len(inv'[1].result.calls) = 1
                               /\ inv'[1].result.calls[1].product_id
                                    = ResolvedDefault[1]]_vars

\* The secret store no longer holds a default product id, and the
\* invocation still used the default of the first fetch without a read.
C13_Witness ==
    /\ Done
    /\ NeedsCredentials(inv[1])
    /\ ~IsNone(inv[1].cacheBefore.credentials)
    /\ inv[1].cacheBefore.credentials[1] # secret
    /\ IsNone(secret.product_id)
    /\ Result.fetches = 0
    /\ Len(Result.calls) = 1
    /\ Some(Result.calls[1].product_id)
         = inv[1].cacheBefore.credentials[1].product_id


---------------------------------------------------------------------------
(* C14 *)

\* The invocation read the secret store and got no credentials from it.
SecretFetchFailed ==
    /\ Done
    /\ Result.fetches = 1
    /\ IsNone(Result.cache.credentials)

ProductIdRequired400 == Some(_response(400, ProductIdRequiredBody))

\* C14: when a request without product id needs the default and the secret
\* fetch fails, the invocation ends with the fetch's exception: it is not
\* answered 400 "product_id is required" (nor answered at all),
\* create_license is not called and the cache is left empty; the 400 is
\* given only on credentials that were fetched and hold no default, and an
\* invocation that needs the credentials and finds the cache empty reads
\* the secret store.
C14_FetchFailureIsNotNoDefault ==
    /\ (SecretFetchFailed /\ OmitsProductId(Event))
         => /\ Result.exc = "ClientError"
            /\ Result.response # ProductIdRequired400
            /\ ~Responded
            /\ Result.calls = << >>
            /\ _secrets_cache = [credentials |-> None]
    /\ (Done /\ Result.response = ProductIdRequired400)
         => /\ CredentialsResolved
            /\ IsNone(ResolvedDefault)
    /\ (Done /\ NeedsCredentials(inv[1])
             /\ IsNone(inv[1].cacheBefore.credentials))
         => Result.fetches = 1

\* An authorized request without product id whose secret fetch failed.
C14_Witness ==
    /\ SecretFetchFailed
    /\ Authorized
    /\ OmitsProductId(Event)
    /\ Result.exc = "ClientError"
    /\ IsNone(_secrets_cache.credentials)


---------------------------------------------------------------------------
(* C15 *)

\* C15: two invocations that differ only in the customer label or the
\* creation time of the caller's active record end with the same response
\* (or the same exception), the same reads of the secret store and the
\* same create_license call.
C15_LabelsDoNotMatter ==
    (~IsNone(twin) /\ ~IsNone(twin[1].second))
    => /\ twin[1].first.response = twin[1].second[1].response
       /\ twin[1].first.exc = twin[1].second[1].exc
       /\ twin[1].first.calls = twin[1].second[1].calls
       /\ twin[1].first.fetches = twin[1].second[1].fetches
       /\ twin[1].first.cache = twin[1].second[1].cache

\* Both invocations were authorized by records with different customer
\* and creation time, and both created the license.
C15_Witness ==
    /\ ~IsNone(twin)
    /\ ~IsNone(twin[1].second)
    /\ ~IsNone(twin[1].first.caller)
    /\ ~IsNone(twin[1].second[1].caller)
    /\ twin[1].first.caller[1].customer
         # twin[1].second[1].caller[1].customer
    /\ twin[1].first.caller[1].created_at
         # twin[1].second[1].caller[1].created_at
    /\ Len(twin[1].second[1].calls) = 1
    /\ twin[1].second[1].response[1].statusCode = 200

---------------------------------------------------------------------------
(* C16 *)

\* The error texts of handler. None names a credential field and none
\* contains "authentication failed".
PlainErrorTexts ==
    {"Unauthorized. Provide a valid API key.",
     "Invalid JSON in request body.",
     "product_id is required.",
     "Cryptlex API error",
     "Internal server error."}
ErrorText(response) == DictGet(response.body.of, "error", EmptyStr)

\* The body is an object that lacks email, password or accountId.
LacksCredentials(event) ==
    /\ IsObjectBody(event)
    /\ ~(CredentialNames \subseteq DictKeys(BodyDict(event)))

\* C16 as stated: a request whose body holds none or only some of email,
\* password and accountId is answered 400 with an error text that names
\* the missing credential, and no upstream call is made.
C16_AsStated ==
    (Done /\ Result.exc = "none" /\ LacksCredentials(Event))
    => /\ Responded
       /\ Status = 400
       /\ ErrorText(Result.response[1]) \notin PlainErrorTexts \cup {EmptyStr}
       /\ Result.calls = << >>

---------------------------------------------------------------------------
(* C17 *)

\* The body carries the three credentials and the upstream answers 401
\* "bad creds" to them.
CredentialsRejected ==
    /\ ~IsNone(twin)
    /\ BodyDict(twin[1].event) = CRYPTLEX_CREDS
    /\ twin[1].world.storeOK
    /\ twin[1].world.secretOK
    /\ twin[1].world.upstream
         = [kind |-> "http_error", status_code |-> 401, text |-> "bad creds"]

\* C17 as stated: when the upstream rejects the credentials of the body
\* with 401, the handler answers 401 with an error message that contains
\* "authentication failed" and with the upstream's detail text, and
\* create_license is not called.
C17_AsStated ==
    CredentialsRejected
    => /\ ~IsNone(twin[1].first.response)
       /\ twin[1].first.response[1].statusCode = 401
       /\ ErrorText(twin[1].first.response[1])
            \notin PlainErrorTexts \cup {EmptyStr}
       /\ DictGet(twin[1].first.response[1].body.of, "detail", EmptyStr)
            = "bad creds"
       /\ twin[1].first.calls = << >>


---------------------------------------------------------------------------
(* C18 *)

\* What the fetches of the threads have returned so far.
Fetched == {th[t].creds : t \in {u \in Threads : ~IsNone(th[u].creds)}}
Returned(t) == th[t].pc = "done"
AllEnded == \A t \in Threads : th[t].pc \in {"done", "raised"}

\* C18: under every interleaving of the threads, the cache entry is absent
\* or is one whole value that a fetch returned, and the store handle is
\* absent or a created resource; every caller that returns has got a
\* handle and a whole fetched value; and while all fetches have returned
\* one and the same value, every caller that returned has got that value
\* and, once all threads have ended, the cache holds it.
C18_ConcurrentInitIsBenign ==
    /\ \/ IsNone(_secrets_cache.credentials)
       \/ _secrets_cache.credentials \in Fetched
    /\ \/ IsNone(_dynamodb)
       \/ \E t \in Threads : th[t].resource = _dynamodb
    /\ \A t \in Threads :
          /\ th[t].pc \notin {"table_check", "table_create", "table_assign",
                              "table_return"}
               => ~IsNone(th[t].handle)
          /\ Returned(t) => th[t].ret \in Fetched
    /\ \A v \in Secrets :
          Fetched = {Some(v)}
          => /\ \A t \in Threads : Returned(t) => th[t].ret = Some(v)
             /\ AllEnded => _secrets_cache.credentials = Some(v)

\* Two threads both found the cache empty and both fetched, the fetches
\* returned the same value, both returned it and the cache holds it.
C18_Witness ==
    /\ \A t \in Threads : Returned(t) /\ ~IsNone(th[t].creds)
    /\ \E v \in Secrets :
          /\ Fetched = {Some(v)}
          /\ \A t \in Threads : th[t].ret = Some(v)
          /\ _secrets_cache.credentials = Some(v)
          /\ ~IsNone(v.product_id)


---------------------------------------------------------------------------
(* C19 *)

\* The record as revoke_key leaves it.
Revoked(item) == [item EXCEPT !.active = Some(FALSE)]

\* C19: in every step (create_key, revoke_key, an invocation with its
\* validate_api_key, or any other) a key that has a record keeps one, and
\* the record stays as it is or only its active becomes false; a revoked
\* key stays revoked, and validate_api_key for a revoked key does not
\* return the record: the request is answered 401 when the lookup works.
C19_SoftRevocationOnly ==
    [][\A k \in ApiKeys :
          /\ ~IsNone(table[k])
               => /\ ~IsNone(table'[k])
                  /\ table'[k][1] \in {table[k][1], Revoked(table[k][1])}
          /\ RevokedKey(k)
               => /\ ~IsNone(table'[k])
                  /\ table'[k][1].active = Some(FALSE)
                  /\ (/\ IsNone(inv)
                      /\ ~IsNone(inv')
                      /\ WellFormedBearer(inv'[1].event)
                      /\ KeyOf(inv'[1].event) = k)
                       => /\ IsNone(inv'[1].result.caller)
                          /\ inv'[1].result.exc = "none"
                               => inv'[1].result.response = Unauthorized401
      ]_vars

\* A key was created, then revoked, and a request with it is refused
\* while the other key is still active.
C19_Witness ==
    /\ Done
    /\ WellFormedBearer(Event)
    /\ RevokedKey(KeyOf(Event))
    /\ table[KeyOf(Event)][1].customer = Some("Test Corp")
    /\ Result.lookups = <<KeyOf(Event)>>
    /\ Result.response = Unauthorized401
    /\ \E k \in ApiKeys :
          ~IsNone(table[k]) /\ table[k][1].active = Some(TRUE)


---------------------------------------------------------------------------
(* C20 *)

\* The call looked up a key and the key store answered.
LookedUp ==
    /\ ~IsNone(seen)
    /\ WellFormedBearer(seen[1].event)
    /\ seen[1].result.exc = "none"
SeenItem == table[KeyOf(seen[1].event)]

\* C20: validate_api_key returns the record of a key whose record has no
\* active attribute; of the keys that have a record it refuses exactly
\* those whose active is present and false, which are those list_keys
\* shows as REVOKED.
C20_MissingActiveCountsAsActive ==
    LookedUp
    => /\ (~IsNone(SeenItem) /\ IsNone(SeenItem[1].active))
            => seen[1].result.ret = SeenItem
       /\ ~IsNone(SeenItem)
            => /\ IsNone(seen[1].result.ret)
                    <=> SeenItem[1].active = Some(FALSE)
               /\ IsNone(seen[1].result.ret)
                    <=> list_keys_status(SeenItem[1]) = "REVOKED"

\* A key whose record has no active attribute was presented and accepted.
C20_Witness ==
    /\ LookedUp
    /\ ~IsNone(SeenItem)
    /\ IsNone(SeenItem[1].active)
    /\ seen[1].result.ret = SeenItem


====
